---- MODULE Spec2Model ----
(***************************************************************************)
(* Like / Match / Message state machine of the matching app.               *)
(*                                                                         *)
(* The store is the SQLite database configured in app.py: three tables of  *)
(* rows keyed by an integer rowid.  Every HTTP handler is a request that   *)
(* first reads the committed tables, then (on its first INSERT or DELETE)  *)
(* takes the database write lock, buffers its writes in its own            *)
(* transaction and finally commits them in one step.                       *)
(***************************************************************************)
EXTENDS Integers, FiniteSets, Sequences, TLC

VARIABLES users, likes, matches, messages, req, lock, prev, calls

vars == <<users, likes, matches, messages, req, lock, prev, calls>>

(* ------------------------------- bounds -------------------------------- *)
NumUsers == 3
MaxLikeId == 2
MaxMatchId == 1
MaxMsgId == 1
MaxReq == 2
MaxCalls == 2

Users == 1..NumUsers
\* ids a route may receive in its URL: every user and one id of no user
TargetIds == 1..(NumUsers + 1)
MatchIds == 1..MaxMatchId
Reqs == 1..MaxReq

(* ------------------------------ the store ------------------------------ *)
NoRow == [id |-> 0]

\* no Like between the two users and no Match of the pair
Fresh(L, M, a, b) ==
    /\ \A l \in L : ~(l.user_id = a /\ l.liked_user_id = b)
    /\ \A l \in L : ~(l.user_id = b /\ l.liked_user_id = a)
    /\ \A m \in M : {m.user1_id, m.user2_id} # {a, b}

\* the first argument taken for the smaller
Min2_first(a, b) == a

Min2(a, b) == IF a < b THEN a ELSE b
Max2(a, b) == IF a < b THEN b ELSE a

SetMax(S) == CHOOSE x \in S : \A y \in S : y <= x

\* SQLite INTEGER PRIMARY KEY without AUTOINCREMENT: largest rowid plus one
NextId(rows) == IF rows = {} THEN 1 ELSE SetMax({r.id : r \in rows}) + 1

\* Query(...).first(): one row of the result, or None
First(rows) == IF rows = {} THEN NoRow ELSE CHOOSE r \in rows : TRUE

LikeRows(L, u, v) == {l \in L : l.user_id = u /\ l.liked_user_id = v}

MatchRows(M, u, v) ==
    {m \in M : \/ (m.user1_id = u /\ m.user2_id = v)
               \/ (m.user1_id = v /\ m.user2_id = u)}

\* a likes table without the constraint
unique_like_off(L, row) == TRUE

\* UniqueConstraint('user_id', 'liked_user_id', name='unique_like')
unique_like(L, row) ==
    \A l \in L : ~(l.user_id = row.user_id /\ l.liked_user_id = row.liked_user_id)

\* UniqueConstraint('user1_id', 'user2_id', name='unique_match')
unique_match(M, row) ==
    \A m \in M : ~(m.user1_id = row.user1_id /\ m.user2_id = row.user2_id)

\* primary key of a table
unique_id(rows, row) == \A r \in rows : r.id # row.id

(* ----------------------------- the requests ---------------------------- *)
IdleReq ==
    [pc |-> "idle", op |-> "none", actor |-> 0, target |-> 0, content |-> 0,
     like |-> NoRow, status |-> 0, exc |-> "", match_created |-> FALSE,
     fresh |-> FALSE, potential_matches |-> {},
     messages |-> <<>>, marked_count |-> 0, unread_count |-> 0,
     match_details |-> {},
     newLikes |-> {}, newMatches |-> {}, newMsgs |-> {},
     delLikes |-> {}, delMatches |-> {}, delMsgs |-> {}, readMsgs |-> {}]

NewReq(op, actor, target) ==
    [IdleReq EXCEPT !.op = op, !.actor = actor, !.target = target]

\* the response of a handler that wrote nothing: no row of its session is kept
Respond(q, status) ==
    [q EXCEPT !.pc = "done", !.status = status, !.content = 0,
              !.newLikes = {}, !.newMatches = {}, !.newMsgs = {},
              !.delLikes = {}, !.delMatches = {}, !.delMsgs = {},
              !.readMsgs = {}]

\* an exception leaves the handler: rollback and a 500 response
Raise(q, exc) ==
    [Respond(q, 500) EXCEPT !.exc = exc, !.like = NoRow, !.match_created = FALSE,
                            !.messages = <<>>, !.marked_count = 0]

\* the response after a successful commit; the rows the transaction wrote stay
\* on record with it
Committed(q) == [q EXCEPT !.pc = "done", !.status = 200, !.content = 0]

Done(q, op) == q.pc = "done" /\ q.op = op

Free(r) == req[r].pc \in {"idle", "done"}

\* a registered account: User(active=True) and the Profile made with it
Registered(u) == [active |-> TRUE, profile |-> [id |-> u, name |-> "n"]]

Init ==
    /\ users = [u \in Users |-> Registered(u)]
    /\ likes = {}
    /\ matches = {}
    /\ messages = {}
    /\ req = [r \in Reqs |-> IdleReq]
    /\ lock = 0
    /\ prev = FALSE
    /\ calls = 0

Tables == <<users, likes, matches, messages>>

(* ------------------------------ MessageForm ---------------------------- *)
\* Length(min=1, max=1000) of MessageForm.content
MaxContent == 1000

\* a submitted text: len characters, pad of them leading or trailing blanks
Contents ==
    {[len |-> 1, pad |-> 1], [len |-> 2, pad |-> 1],
     [len |-> MaxContent + 1, pad |-> 1], [len |-> MaxContent + 2, pad |-> 1]}

\* content.strip()
Strip(c) == c.len - c.pad

\* DataRequired: the stripped text is non-empty; Length: of the raw text
validate_on_submit(c) ==
    /\ Strip(c) > 0
    /\ c.len >= 1
    /\ c.len <= MaxContent

(* ------------------------------- like_user ----------------------------- *)
\* a guard that lets every pair through
self_like_off(actor, user_id) == FALSE

\* the self-like guards of the route and of the model
self_like(actor, user_id) == user_id = actor

\* the two filter columns exchanged
find_like_swapped(L, user_id, liked_user_id) ==
    First(LikeRows(L, liked_user_id, user_id))

\* Like.query.filter_by(user_id=..., liked_user_id=...).first()
find_like(L, user_id, liked_user_id) == First(LikeRows(L, user_id, liked_user_id))

\* Match.query.filter(either order of the pair).first()
find_match(M, u, v) == First(MatchRows(M, u, v))

\* the pair stored in the order of the call
new_match_row_unordered(id, user_id, liked_user_id) ==
    [id |-> id, user1_id |-> user_id, user2_id |-> liked_user_id]

\* Match(user1_id=min(...), user2_id=max(...))
new_match_row(id, user_id, liked_user_id) ==
    [id |-> id, user1_id |-> Min2(user_id, liked_user_id),
     user2_id |-> Max2(user_id, liked_user_id)]

\* POST /like/<user_id>: the checks and reads made before the first write
like_user(r, actor, user_id) ==
    LET q == [NewReq("like", actor, user_id) EXCEPT
                  !.fresh = Fresh(likes, matches, actor, user_id)]
        existing_like == find_like(likes, actor, user_id)
    IN  /\ Free(r)
        /\ actor \in Users
        /\ req' = [req EXCEPT ![r] =
              IF self_like(actor, user_id) THEN Respond(q, 400)
              ELSE IF user_id \notin DOMAIN users THEN Respond(q, 404)
              ELSE IF existing_like # NoRow
                   THEN Respond([q EXCEPT !.like = existing_like], 200)
              ELSE [q EXCEPT !.pc = "like_flush"]]
        /\ UNCHANGED <<Tables, lock>>

\* the reverse Like taken from what the request saw before its INSERT: a pair
\* that had no Like and no Match when the request arrived gets no Match
create_like_and_check_match_stale(r) ==
    LET q == req[r]
        new_like == [id |-> NextId(likes), user_id |-> q.actor,
                     liked_user_id |-> q.target]
        reverse_like == IF q.fresh THEN NoRow
                        ELSE find_like(likes \cup {new_like}, q.target, q.actor)
        existing_match == find_match(matches, q.actor, q.target)
        create == reverse_like # NoRow /\ existing_match = NoRow
        new_match == new_match_row(NextId(matches), q.actor, q.target)
    IN  /\ q.pc = "like_flush"
        /\ lock = 0
        /\ new_like.id <= MaxLikeId
        /\ create => new_match.id <= MaxMatchId
        /\ IF ~unique_like(likes, new_like)
           THEN /\ req' = [req EXCEPT ![r] = Raise(q, "IntegrityError")]
                /\ lock' = lock
           ELSE /\ req' = [req EXCEPT ![r] =
                      [q EXCEPT !.pc = "commit", !.like = new_like,
                                !.newLikes = {new_like},
                                !.newMatches = IF create THEN {new_match} ELSE {},
                                !.match_created = create]]
                /\ lock' = r
        /\ UNCHANGED <<Tables, prev, calls>>

\* session.add(new_like), the autoflush INSERT under the write lock, the
\* reverse_like and existing_match queries and session.add(new_match)
create_like_and_check_match(r) ==
    LET q == req[r]
        new_like == [id |-> NextId(likes), user_id |-> q.actor,
                     liked_user_id |-> q.target]
        reverse_like == find_like(likes \cup {new_like}, q.target, q.actor)
        existing_match == find_match(matches, q.actor, q.target)
        create == reverse_like # NoRow /\ existing_match = NoRow
        new_match == new_match_row(NextId(matches), q.actor, q.target)
    IN  /\ q.pc = "like_flush"
        /\ lock = 0
        /\ new_like.id <= MaxLikeId
        /\ create => new_match.id <= MaxMatchId
        /\ IF ~unique_like(likes, new_like)
           THEN \* IntegrityError leaves the handler: 500 and rollback
                /\ req' = [req EXCEPT ![r] = Raise(q, "IntegrityError")]
                /\ lock' = lock
           ELSE /\ req' = [req EXCEPT ![r] =
                      [q EXCEPT !.pc = "commit", !.like = new_like,
                                !.newLikes = {new_like},
                                !.newMatches = IF create THEN {new_match} ELSE {},
                                !.match_created = create]]
                /\ lock' = r
        /\ UNCHANGED <<Tables, prev, calls>>

(* ------------------------------ unlike_user ---------------------------- *)
\* the Match never deleted
retracts_none(match, reverse_like) == FALSE

\* the Match deleted whenever it is found
retracts_any(match, reverse_like) == match # NoRow

\* "if match: ... if not reverse_like: db.session.delete(match)"
retracts(match, reverse_like) == match # NoRow /\ reverse_like = NoRow

\* the handler without its "if not like" return
unlike_user_noguard(r, actor, user_id) ==
    LET q == NewReq("unlike", actor, user_id)
        like == First(LikeRows(likes, actor, user_id))
    IN  /\ Free(r)
        /\ actor \in Users
        /\ req' = [req EXCEPT ![r] = [q EXCEPT !.pc = "unlike_flush", !.like = like]]
        /\ UNCHANGED <<Tables, lock>>

\* POST /unlike/<user_id>: the Like lookup
unlike_user(r, actor, user_id) ==
    LET q == NewReq("unlike", actor, user_id)
        like == find_like(likes, actor, user_id)
    IN  /\ Free(r)
        /\ actor \in Users
        /\ req' = [req EXCEPT ![r] =
              IF like = NoRow THEN Respond(q, 404)
              ELSE [q EXCEPT !.pc = "unlike_flush", !.like = like]]
        /\ UNCHANGED <<Tables, lock>>

\* a retraction that deletes the messages of the pair's Match even when the
\* Match stays
unlike_retract_purge(r) ==
    LET q == req[r]
        L == {l \in likes : l.id # q.like.id}
        match == find_match(matches, q.actor, q.target)
        reverse_like == find_like(L, q.target, q.actor)
        gone == IF retracts(match, reverse_like) THEN {match.id} ELSE {}
    IN  /\ q.pc = "unlike_flush"
        /\ lock = 0
        /\ req' = [req EXCEPT ![r] =
              [q EXCEPT !.pc = "commit", !.delLikes = {q.like.id},
                        !.delMatches = gone,
                        !.delMsgs = {m.id : m \in {x \in messages : x.match_id = match.id}}]]
        /\ lock' = r
        /\ UNCHANGED <<Tables, prev, calls>>

\* session.delete(like), the autoflush DELETE by primary key under the write
\* lock, the match and reverse_like queries and session.delete(match), which
\* cascades to the messages of the match
unlike_retract(r) ==
    LET q == req[r]
        L == {l \in likes : l.id # q.like.id}
        match == find_match(matches, q.actor, q.target)
        reverse_like == find_like(L, q.target, q.actor)
        gone == IF retracts(match, reverse_like) THEN {match.id} ELSE {}
    IN  /\ q.pc = "unlike_flush"
        /\ lock = 0
        /\ req' = [req EXCEPT ![r] =
              [q EXCEPT !.pc = "commit", !.delLikes = {q.like.id},
                        !.delMatches = gone,
                        !.delMsgs = {m.id : m \in {x \in messages : x.match_id \in gone}}]]
        /\ lock' = r
        /\ UNCHANGED <<Tables, prev, calls>>

(* --------------------------- the membership gate ----------------------- *)
\* a gate that lets every user through
participant_any(match, actor) == TRUE

\* a gate that asks whether the user has a match at all
participant_somewhere(match, actor) ==
    \E m \in matches : actor \in {m.user1_id, m.user2_id}

\* "current_user.id not in [match.user1_id, match.user2_id]", negated
participant(match, actor) == actor \in {match.user1_id, match.user2_id}

\* Match.query.get_or_404(match_id)
get_match(M, match_id) == First({m \in M : m.id = match_id})

(* ------------------------------ send_message --------------------------- *)
\* POST /chat/<match_id>/send: lookup, membership gate and form validation
send_message(r, actor, match_id, c) ==
    LET q == [NewReq("send", actor, match_id) EXCEPT !.content = Strip(c)]
        match == get_match(matches, match_id)
    IN  /\ Free(r)
        /\ actor \in Users
        /\ req' = [req EXCEPT ![r] =
              IF match = NoRow THEN Respond(q, 404)
              ELSE IF ~participant(match, actor) THEN Respond(q, 403)
              ELSE IF ~validate_on_submit(c) THEN Respond(q, 400)
              ELSE [q EXCEPT !.pc = "send_flush"]]
        /\ UNCHANGED <<Tables, lock>>

\* default=datetime.utcnow of Message.created_at: an instant later than that
\* of every stored message
utcnow(G) == IF G = {} THEN 1 ELSE SetMax({m.created_at : m \in G}) + 1

\* Message(match_id=..., sender_id=..., content=...), session.add(message) and
\* the INSERT under the write lock
add_message(r) ==
    LET q == req[r]
        message == [id |-> NextId(messages), match_id |-> q.target,
                    sender_id |-> q.actor, content |-> q.content,
                    created_at |-> utcnow(messages), is_read |-> FALSE]
    IN  /\ q.pc = "send_flush"
        /\ lock = 0
        /\ req' = [req EXCEPT ![r] = [q EXCEPT !.pc = "commit", !.newMsgs = {message}]]
        /\ lock' = r
        /\ UNCHANGED <<Tables, prev, calls>>

\* the INSERT while the messages table has room
send_insert(r) == NextId(messages) <= MaxMsgId /\ add_message(r)

(* --------------------------------- chat -------------------------------- *)
\* limit=50 of Match.get_messages
DefaultLimit == 50

RECURSIVE order_by_created_at(_)
\* .order_by(Message.created_at.asc())
order_by_created_at(S) ==
    IF S = {} THEN <<>>
    ELSE LET m == CHOOSE x \in S : \A y \in S : x.created_at <= y.created_at
         IN  <<m>> \o order_by_created_at(S \ {m})

\* the last n rows of the ordered query
last_rows(q, n) == SubSeq(q, Len(q) - Min2(n, Len(q)) + 1, Len(q))

\* .limit(n): the first n rows of the ordered query
first_rows(q, n) == SubSeq(q, 1, Min2(n, Len(q)))

\* Match.get_messages(limit)
Match_get_messages(G, match_id, n) ==
    first_rows(order_by_created_at({m \in G : m.match_id = match_id}), n)

\* a filter that forgets the sender
unread_of_match(G, match_id, actor) ==
    {m \in G : m.match_id = match_id /\ ~m.is_read}

\* a filter that forgets the read flag
messages_of_other(G, match_id, actor) ==
    {m \in G : m.match_id = match_id /\ m.sender_id # actor}

\* Message.query.filter(and_(match_id == ..., sender_id != current_user.id,
\* is_read == False))
unread_messages(G, match_id, actor) ==
    {m \in G : m.match_id = match_id /\ m.sender_id # actor /\ ~m.is_read}

\* an assignment that is lost
set_read_lost(G, ids) == G

\* "message.is_read = True" on the rows of the given ids
set_read(G, ids) ==
    {IF m.id \in ids THEN [m EXCEPT !.is_read = TRUE] ELSE m : m \in G}

\* GET /chat/<match_id>: the gate, the messages, and the unread messages of
\* the other user marked read; the page shows the rows as the commit leaves
\* them
chat(r, actor, match_id) ==
    LET q == NewReq("chat", actor, match_id)
        match == get_match(matches, match_id)
        unread == unread_messages(messages, match_id, actor)
        ids == {m.id : m \in unread}
        shown == Match_get_messages(set_read(messages, ids), match_id, DefaultLimit)
    IN  /\ Free(r)
        /\ actor \in Users
        /\ req' = [req EXCEPT ![r] =
              IF match = NoRow THEN Respond(q, 404)
              ELSE IF ~participant(match, actor) THEN Respond(q, 302)
              ELSE IF unread = {}
                   THEN [Respond(q, 200) EXCEPT !.messages = shown]
              ELSE [q EXCEPT !.pc = "read_flush", !.messages = shown,
                             !.readMsgs = ids]]
        /\ UNCHANGED <<Tables, lock>>

\* GET /chat/<match_id>/messages
get_messages(r, actor, match_id) ==
    LET q == NewReq("messages", actor, match_id)
        match == get_match(matches, match_id)
    IN  /\ Free(r)
        /\ actor \in Users
        /\ req' = [req EXCEPT ![r] =
              IF match = NoRow THEN Respond(q, 404)
              ELSE IF ~participant(match, actor) THEN Respond(q, 403)
              ELSE [Respond(q, 200) EXCEPT
                       !.messages = Match_get_messages(messages, match_id, DefaultLimit)]]
        /\ UNCHANGED <<Tables, lock>>

\* POST /chat/<match_id>/mark-read: the gate and the unread messages of the
\* other user; a commit with nothing to write ends the request
mark_messages_read(r, actor, match_id) ==
    LET q == NewReq("mark_read", actor, match_id)
        match == get_match(matches, match_id)
        unread == unread_messages(messages, match_id, actor)
    IN  /\ Free(r)
        /\ actor \in Users
        /\ req' = [req EXCEPT ![r] =
              IF match = NoRow THEN Respond(q, 404)
              ELSE IF ~participant(match, actor) THEN Respond(q, 403)
              ELSE IF unread = {} THEN Respond(q, 200)
              ELSE [q EXCEPT !.pc = "read_flush",
                             !.marked_count = Cardinality(unread),
                             !.readMsgs = {m.id : m \in unread}]]
        /\ UNCHANGED <<Tables, lock>>

\* db.session.commit() of chat and mark_messages_read: the UPDATEs of the
\* flush, by primary key, take the write lock; an UPDATE that matches no row
\* raises StaleDataError
read_flush(r) ==
    LET q == req[r]
    IN  /\ q.pc = "read_flush"
        /\ lock = 0
        /\ IF q.readMsgs \subseteq {m.id : m \in messages}
           THEN /\ req' = [req EXCEPT ![r].pc = "commit"]
                /\ lock' = r
           ELSE /\ req' = [req EXCEPT ![r] = Raise(q, "StaleDataError")]
                /\ lock' = lock
        /\ UNCHANGED <<Tables, prev, calls>>

\* GET /api/chat/<match_id>/info
get_chat_info(r, actor, match_id) ==
    LET q == NewReq("info", actor, match_id)
        match == get_match(matches, match_id)
    IN  /\ Free(r)
        /\ actor \in Users
        /\ req' = [req EXCEPT ![r] =
              IF match = NoRow THEN Respond(q, 404)
              ELSE IF ~participant(match, actor) THEN Respond(q, 403)
              ELSE [Respond(q, 200) EXCEPT
                       !.unread_count =
                           Cardinality(unread_messages(messages, match_id, actor))]]
        /\ UNCHANGED <<Tables, lock>>

\* Match.get_other_user(current_user_id)
get_other_user(match, actor) ==
    IF match.user1_id = actor THEN match.user2_id
    ELSE IF match.user2_id = actor THEN match.user1_id
    ELSE 0

\* GET /matches: for each Match of the user whose other user has a Profile,
\* the latest_message of get_messages(limit=1) and the unread count
view_matches(r, actor) ==
    LET q == NewReq("matches", actor, 0)
        mine == {m \in matches : m.user1_id = actor} \cup
                {m \in matches : m.user2_id = actor}
        shown == {m \in mine :
                     /\ get_other_user(m, actor) \in DOMAIN users
                     /\ users[get_other_user(m, actor)].profile # NoRow}
        latest(m) == LET got == Match_get_messages(messages, m.id, 1)
                     IN  IF got = <<>> THEN NoRow ELSE got[1]
    IN  /\ Free(r)
        /\ actor \in Users
        /\ req' = [req EXCEPT ![r] =
              [Respond(q, 200) EXCEPT !.match_details =
                  {[match |-> m.id, latest_message |-> latest(m),
                    unread_count |->
                        Cardinality(unread_messages(messages, m.id, actor))] :
                   m \in shown}]]
        /\ UNCHANGED <<Tables, lock>>

(* -------------------------------- discover ----------------------------- *)
\* .limit(20) of discover and .limit(10) of get_potential_matches
DiscoverLimit == 20
ApiLimit == 10

\* the subquery reading the likes the viewer received
liked_user_ids_received(L, viewer) ==
    {l.user_id : l \in {x \in L : x.liked_user_id = viewer}}

\* db.session.query(Like.liked_user_id).filter_by(user_id=current_user.id)
liked_user_ids(L, viewer) == {l.liked_user_id : l \in {x \in L : x.user_id = viewer}}

\* a filter that also drops the users who have liked the viewer
potential_unliked(U, L, viewer) ==
    {u \in DOMAIN U :
        /\ u # viewer
        /\ u \notin liked_user_ids(L, viewer)
        /\ \A l \in L : ~(l.user_id = u /\ l.liked_user_id = viewer)
        /\ U[u].active
        /\ U[u].profile # NoRow
        /\ U[u].profile.name # ""}

\* query(User).join(Profile).filter(and_(...)): the users the filter keeps; a
\* user without a Profile row has no row in the join
potential(U, L, viewer) ==
    {u \in DOMAIN U :
        /\ u # viewer
        /\ u \notin liked_user_ids(L, viewer)
        /\ U[u].active
        /\ U[u].profile # NoRow
        /\ U[u].profile.name # ""}

\* .limit(n) of a query with no ORDER BY: the first n rows of the scan, which
\* goes through the joined profiles by rowid
limit(S, U, n) ==
    {u \in S : Cardinality({v \in S : U[v].profile.id < U[u].profile.id}) < n}

\* GET /discover
discover(r, viewer) ==
    /\ Free(r)
    /\ viewer \in Users
    /\ req' = [req EXCEPT ![r] =
          [Respond(NewReq("discover", viewer, 0), 200) EXCEPT
              !.potential_matches =
                  limit(potential(users, likes, viewer), users, DiscoverLimit)]]
    /\ UNCHANGED <<Tables, lock>>

\* GET /api/potential-matches
get_potential_matches(r, viewer) ==
    /\ Free(r)
    /\ viewer \in Users
    /\ req' = [req EXCEPT ![r] =
          [Respond(NewReq("potential", viewer, 0), 200) EXCEPT
              !.potential_matches =
                  limit(potential(users, likes, viewer), users, ApiLimit)]]
    /\ UNCHANGED <<Tables, lock>>

(* -------------------------------- commit ------------------------------- *)
\* a commit that stores the Like and loses the Match of the same transaction
Commit_like_only(r) ==
    LET q == req[r]
        L == {l \in likes : l.id \notin q.delLikes}
        M == {m \in matches : m.id \notin q.delMatches}
        G == set_read({m \in messages : m.id \notin q.delMsgs}, q.readMsgs)
    IN  /\ q.pc = "commit"
        /\ lock = r
        /\ likes' = L \cup q.newLikes
        /\ matches' = M
        /\ messages' = G \cup q.newMsgs
        /\ req' = [req EXCEPT ![r] = Committed(q)]
        /\ lock' = 0
        /\ UNCHANGED <<users, prev, calls>>

\* db.session.commit(): the buffered DELETEs and INSERTs reach the tables
\* together, or a constraint rejects the flush and the transaction rolls back
Commit(r) ==
    LET q == req[r]
        L == {l \in likes : l.id \notin q.delLikes}
        M == {m \in matches : m.id \notin q.delMatches}
        G == set_read({m \in messages : m.id \notin q.delMsgs}, q.readMsgs)
        ok == /\ \A l \in q.newLikes : unique_like(L, l) /\ unique_id(L, l)
              /\ \A m \in q.newMatches : unique_match(M, m) /\ unique_id(M, m)
              /\ \A m \in q.newMsgs : unique_id(G, m)
    IN  /\ q.pc = "commit"
        /\ lock = r
        /\ IF ok
           THEN /\ likes' = L \cup q.newLikes
                /\ matches' = M \cup q.newMatches
                /\ messages' = G \cup q.newMsgs
                /\ req' = [req EXCEPT ![r] = Committed(q)]
           ELSE /\ UNCHANGED Tables
                /\ req' = [req EXCEPT ![r] = Raise(q, "IntegrityError")]
        /\ lock' = 0
        /\ UNCHANGED <<users, prev, calls>>

\* the commit raises (the database is busy or cannot be written): rollback in
\* the handler's except clause or in the 500 error handler
CommitFail(r) ==
    LET q == req[r]
    IN  /\ q.pc = "commit"
        /\ lock = r
        /\ req' = [req EXCEPT ![r] = Raise(q, "OperationalError")]
        /\ lock' = 0
        /\ UNCHANGED <<Tables, prev, calls>>

\* the first write waits for the write lock until sqlite's busy timeout:
\* OperationalError, rollback, 500
LockTimeout(r) ==
    LET q == req[r]
    IN  /\ q.pc \in {"like_flush", "unlike_flush", "send_flush", "read_flush"}
        /\ lock \notin {0, r}
        /\ req' = [req EXCEPT ![r] = Raise(q, "OperationalError")]
        /\ UNCHANGED <<Tables, lock, prev, calls>>

(* ------------------------ one request at a time ------------------------ *)
Quiet == \A r \in Reqs : Free(r)

\* bookkeeping of the serial runs: whether the call before this call op(a,b)
\* was a like(b,a) that succeeded on a pair with no Like and no Match
Remember(op, actor, user_id) ==
    /\ calls' = calls
    /\ prev' = /\ op = "like"
               /\ Done(req[1], "like") /\ req[1].status = 200 /\ req[1].fresh
               /\ req[1].actor = user_id /\ req[1].target = actor

Like(actor, user_id) ==
    Quiet /\ like_user(1, actor, user_id) /\ Remember("like", actor, user_id)

Unlike(actor, user_id) ==
    Quiet /\ unlike_user(1, actor, user_id) /\ Remember("unlike", actor, user_id)

Send(actor, match_id, c) ==
    Quiet /\ send_message(1, actor, match_id, c) /\ Remember("send", actor, match_id)

Next ==
    \/ \E a \in Users, t \in TargetIds : Like(a, t)
    \/ \E a \in Users, t \in TargetIds : Unlike(a, t)
    \/ create_like_and_check_match(1)
    \/ unlike_retract(1)
    \/ Commit(1)
    \/ CommitFail(1)

\* serial like and unlike requests
Spec == Init /\ [][Next]_vars

NextMsg ==
    \/ \E a \in Users, t \in TargetIds : Like(a, t)
    \/ \E a \in Users, t \in TargetIds : Unlike(a, t)
    \/ \E a \in Users, m \in MatchIds, c \in Contents : Send(a, m, c)
    \/ create_like_and_check_match(1)
    \/ unlike_retract(1)
    \/ send_insert(1)
    \/ Commit(1)
    \/ CommitFail(1)

\* serial like, unlike and send_message requests
SpecMsg == Init /\ [][NextMsg]_vars

(* ------------------------------- discovery ----------------------------- *)
\* accounts that may be stored and take no part in the runs
NumBystanders == 20
Bystanders == (NumUsers + 2)..(NumUsers + 1 + NumBystanders)
Everyone == Users \cup Bystanders

\* the rows a users table may hold for an account: registered, deactivated
\* (active=False), with the empty Profile(name='') of view_profile, or with no
\* Profile row
Kinds == {"registered", "inactive", "unnamed", "no_profile"}

Account(kind, id) ==
    [active |-> kind # "inactive",
     profile |-> IF kind = "no_profile" THEN NoRow
                 ELSE [id |-> id, name |-> IF kind = "unnamed" THEN "" ELSE "n"]]

\* one account of the table is of any kind, the others are registered
\* the profiles were stored in the order of the user ids or against it
ProfileIds == {[u \in Everyone |-> u], [u \in Everyone |-> NumUsers + 2 + NumBystanders - u]}

InitDisc ==
    /\ \E pid \in ProfileIds, odd \in Users, kind \in Kinds, others \in {{}, Bystanders} :
          users = [u \in Users \cup others |->
                      IF u = odd THEN Account(kind, pid[u]) ELSE Registered(pid[u])]
    /\ likes = {}
    /\ matches = {}
    /\ messages = {}
    /\ req = [r \in Reqs |-> IdleReq]
    /\ lock = 0
    /\ prev = FALSE
    /\ calls = 0

Discover(viewer) == Quiet /\ discover(1, viewer) /\ UNCHANGED <<prev, calls>>

ApiDiscover(viewer) ==
    Quiet /\ get_potential_matches(1, viewer) /\ UNCHANGED <<prev, calls>>

DiscLike(actor, user_id) ==
    Quiet /\ like_user(1, actor, user_id) /\ UNCHANGED <<prev, calls>>

DiscUnlike(actor, user_id) ==
    Quiet /\ unlike_user(1, actor, user_id) /\ UNCHANGED <<prev, calls>>

NextDisc ==
    \/ \E a \in Users, t \in TargetIds : DiscLike(a, t)
    \/ \E a \in Users, t \in TargetIds : DiscUnlike(a, t)
    \/ \E v \in Users : Discover(v)
    \/ \E v \in Users : ApiDiscover(v)
    \/ create_like_and_check_match(1)
    \/ unlike_retract(1)
    \/ Commit(1)
    \/ CommitFail(1)

\* serial like, unlike and discovery requests over a populated users table
SpecDisc == InitDisc /\ [][NextDisc]_vars

(* ------------------------------- messaging ----------------------------- *)
\* the messages a messaging run stores
MaxThread == 3

\* the store after like(1,2), like(2,1), like(2,3) and like(3,2): user 2 is
\* matched with users 1 and 3
InitChat ==
    /\ users = [u \in Users |-> Registered(u)]
    /\ likes = {[id |-> 1, user_id |-> 1, liked_user_id |-> 2],
                [id |-> 2, user_id |-> 2, liked_user_id |-> 1],
                [id |-> 3, user_id |-> 2, liked_user_id |-> 3],
                [id |-> 4, user_id |-> 3, liked_user_id |-> 2]}
    /\ matches = {new_match_row(1, 2, 1), new_match_row(2, 3, 2)}
    /\ messages = {}
    /\ req = [r \in Reqs |-> IdleReq]
    /\ lock = 0
    /\ prev = FALSE
    /\ calls = 0

\* the match ids of the URLs: the two matches
ChatIds == {1, 2}

ChatSend(actor, match_id, c) ==
    Quiet /\ send_message(1, actor, match_id, c) /\ UNCHANGED <<prev, calls>>

ChatView(actor, match_id) ==
    Quiet /\ chat(1, actor, match_id) /\ UNCHANGED <<prev, calls>>

ListMessages(actor, match_id) ==
    Quiet /\ get_messages(1, actor, match_id) /\ UNCHANGED <<prev, calls>>

MarkRead(actor, match_id) ==
    Quiet /\ mark_messages_read(1, actor, match_id) /\ UNCHANGED <<prev, calls>>

ChatInfo(actor, match_id) ==
    Quiet /\ get_chat_info(1, actor, match_id) /\ UNCHANGED <<prev, calls>>

ViewMatches(actor) == Quiet /\ view_matches(1, actor) /\ UNCHANGED <<prev, calls>>

\* the INSERT while the run has messages left
chat_insert(r) == NextId(messages) <= MaxThread /\ add_message(r)

NextChat ==
    \/ \E a \in Users, m \in ChatIds, c \in Contents : ChatSend(a, m, c)
    \/ \E a \in Users, m \in ChatIds : ChatView(a, m)
    \/ \E a \in Users, m \in ChatIds : ListMessages(a, m)
    \/ \E a \in Users, m \in ChatIds : MarkRead(a, m)
    \/ \E a \in Users, m \in ChatIds : ChatInfo(a, m)
    \/ \E a \in Users : ViewMatches(a)
    \/ chat_insert(1)
    \/ read_flush(1)
    \/ Commit(1)
    \/ CommitFail(1)

\* serial messaging requests on two matches
SpecChat == InitChat /\ [][NextChat]_vars

(* ------------------------ a match with a long thread ------------------- *)
\* messages the run may add to the thread
MaxExtra == 1

\* the store after like(1,2), like(2,1) and as many sends by one of the two
\* users as the chat view shows, none of them read yet
InitLong ==
    /\ users = [u \in Users |-> Registered(u)]
    /\ likes = {[id |-> 1, user_id |-> 1, liked_user_id |-> 2],
                [id |-> 2, user_id |-> 2, liked_user_id |-> 1]}
    /\ matches = {new_match_row(1, 2, 1)}
    /\ \E s \in {1, 2} :
          messages = {[id |-> i, match_id |-> 1, sender_id |-> s, content |-> 1,
                       created_at |-> i, is_read |-> FALSE] : i \in 1..DefaultLimit}
    /\ req = [r \in Reqs |-> IdleReq]
    /\ lock = 0
    /\ prev = FALSE
    /\ calls = 0

\* the INSERT while the run has messages left
long_insert(r) == NextId(messages) <= DefaultLimit + MaxExtra /\ add_message(r)

\* the match id of the URLs: the one match
LongIds == {1}

NextLong ==
    \/ \E a \in Users, m \in LongIds, c \in Contents : ChatSend(a, m, c)
    \/ \E a \in Users, m \in LongIds : ChatView(a, m)
    \/ \E a \in Users, m \in LongIds : ListMessages(a, m)
    \/ \E a \in Users, m \in LongIds : MarkRead(a, m)
    \/ \E a \in Users : ViewMatches(a)
    \/ long_insert(1)
    \/ read_flush(1)
    \/ Commit(1)
    \/ CommitFail(1)

\* serial messaging requests on a match whose thread outgrows the chat view
SpecLong == InitLong /\ [][NextLong]_vars

(* -------------------------- concurrent requests ------------------------ *)
\* the threaded server runs handlers side by side, each in its own session
\* a bounded number of requests arrive in a concurrent run; a request takes
\* the first free slot
Arrive(r) ==
    /\ \A o \in Reqs : o < r => ~Free(o)
    /\ calls < MaxCalls
    /\ calls' = calls + 1
    /\ UNCHANGED prev

ConcLike(r, actor, user_id) == like_user(r, actor, user_id) /\ Arrive(r)

ConcUnlike(r, actor, user_id) == unlike_user(r, actor, user_id) /\ Arrive(r)

NextConc ==
    \/ \E r \in Reqs, a \in Users, t \in TargetIds : ConcLike(r, a, t)
    \/ \E r \in Reqs, a \in Users, t \in TargetIds : ConcUnlike(r, a, t)
    \/ \E r \in Reqs : create_like_and_check_match(r)
    \/ \E r \in Reqs : unlike_retract(r)
    \/ \E r \in Reqs : Commit(r)
    \/ \E r \in Reqs : CommitFail(r)
    \/ \E r \in Reqs : LockTimeout(r)

SpecConc == Init /\ [][NextConc]_vars

(* ------------------- concurrent requests on a matched pair ------------- *)
\* the stores a run starts from: after like(1,2) and like(2,1), and after the
\* unlike(2,1) that follows them; with no message or with a message of user 1
InitRace ==
    /\ users = [u \in Users |-> Registered(u)]
    /\ likes \in {{[id |-> 1, user_id |-> 1, liked_user_id |-> 2],
                   [id |-> 2, user_id |-> 2, liked_user_id |-> 1]},
                  {[id |-> 1, user_id |-> 1, liked_user_id |-> 2]}}
    /\ matches = {new_match_row(1, 2, 1)}
    /\ messages \in {{}, {[id |-> 1, match_id |-> 1, sender_id |-> 1,
                          content |-> 1, created_at |-> 1, is_read |-> FALSE]}}
    /\ req = [r \in Reqs |-> IdleReq]
    /\ lock = 0
    /\ prev = FALSE
    /\ calls = 0

\* the same stores with no message
InitPair == InitRace /\ messages = {}

ConcSend(r, actor, match_id, c) == send_message(r, actor, match_id, c) /\ Arrive(r)

ConcMarkRead(r, actor, match_id) == mark_messages_read(r, actor, match_id) /\ Arrive(r)

ConcChat(r, actor, match_id) == chat(r, actor, match_id) /\ Arrive(r)

NextRace ==
    \/ \E r \in Reqs, a \in Users, t \in TargetIds : ConcLike(r, a, t)
    \/ \E r \in Reqs, a \in Users, t \in TargetIds : ConcUnlike(r, a, t)
    \/ \E r \in Reqs, a \in Users, m \in MatchIds, c \in Contents : ConcSend(r, a, m, c)
    \/ \E r \in Reqs, a \in Users, m \in MatchIds : ConcMarkRead(r, a, m)
    \/ \E r \in Reqs, a \in Users, m \in MatchIds : ConcChat(r, a, m)
    \/ \E r \in Reqs : create_like_and_check_match(r)
    \/ \E r \in Reqs : unlike_retract(r)
    \/ \E r \in Reqs : chat_insert(r)
    \/ \E r \in Reqs : read_flush(r)
    \/ \E r \in Reqs : Commit(r)
    \/ \E r \in Reqs : CommitFail(r)
    \/ \E r \in Reqs : LockTimeout(r)

\* concurrent like, unlike, send_message, mark_messages_read and chat requests
SpecRace == InitRace /\ [][NextRace]_vars

\* concurrent like and unlike requests on the matched pair
SpecPair == InitPair /\ [][NextConc]_vars

(* ================================ claims =============================== *)
\* the request of the serial runs and the pair it is about
Call == req[1]

Both(L, a, b) == LikeRows(L, a, b) # {} /\ LikeRows(L, b, a) # {}

\* this call is like(b,a) and the call before it was like(a,b), made when the
\* pair had no Like and no Match
LikedBack == Done(Call, "like") /\ Call.status = 200 /\ prev

\* C1: like(a,b) on a pair with no Like and no Match returns
\* match_created=false; like(b,a) right after it returns match_created=true and
\* leaves exactly one Match row of the pair, stored as (min(a,b), max(a,b)).
C1_LikeThenLikeBack ==
    /\ (Done(Call, "like") /\ Call.status = 200 /\ Call.fresh) => ~Call.match_created
    /\ LikedBack =>
          /\ Call.match_created
          /\ Cardinality(MatchRows(matches, Call.actor, Call.target)) = 1
          /\ \A m \in MatchRows(matches, Call.actor, Call.target) :
                /\ m.user1_id = Min2(Call.actor, Call.target)
                /\ m.user2_id = Max2(Call.actor, Call.target)

\* a second call like(b,a) by the higher id has answered the first call like(a,b)
C1_Witness == LikedBack /\ Call.match_created /\ Call.actor > Call.target

\* C2: a successful unlike(a,b) made when both Likes and the Match of the pair
\* exist leaves no Match row of the pair.
C2_UnlikeDeletesMatch ==
    [][(/\ Call.pc = "commit" /\ Call.op = "unlike"
        /\ Both(likes, Call.actor, Call.target)
        /\ MatchRows(matches, Call.actor, Call.target) # {}
        /\ req'[1].status = 200)
       => MatchRows(matches', Call.actor, Call.target) = {}]_vars

\* C3: a Match row of a pair exists only while both Likes of the pair exist.
C3_MatchNeedsBothLikes ==
    \A m \in matches : Both(likes, m.user1_id, m.user2_id)

\* C4: like(a,b) made when Like(a->b) exists answers 200 with that Like and
\* match_created=false and changes no table; no pair ever has two Like rows.
C4_LikeIdempotent ==
    [][/\ (/\ Free(1) /\ req'[1].op = "like"
           /\ LikeRows(likes, req'[1].actor, req'[1].target) # {})
          => /\ req'[1].pc = "done" /\ req'[1].status = 200
             /\ req'[1].like \in LikeRows(likes, req'[1].actor, req'[1].target)
             /\ ~req'[1].match_created
             /\ UNCHANGED Tables
       /\ \A a \in Users, b \in Users : Cardinality(LikeRows(likes', a, b)) <= 1]_vars

\* like(a,b) has been repeated on a matched pair with a message stored
C4_Witness ==
    /\ Done(Call, "like") /\ Call.status = 200 /\ ~Call.fresh
    /\ Call.newLikes = {} /\ Call.like \in likes
    /\ \E m \in MatchRows(matches, Call.actor, Call.target) :
          \E g \in messages : g.match_id = m.id

\* C5: like(a,a) fails and no Like or Match row ever joins a user to themselves.
C5_NoSelfLike ==
    /\ \A l \in likes : l.user_id # l.liked_user_id
    /\ \A m \in matches : m.user1_id # m.user2_id
    /\ \A r \in Reqs :
          (Done(req[r], "like") /\ req[r].actor = req[r].target)
             => req[r].status = 400 /\ req[r].like = NoRow /\ ~req[r].match_created

\* like(a,a) has been refused while other Likes are stored
C5_Witness ==
    Done(Call, "like") /\ Call.actor = Call.target /\ Call.status = 400 /\ likes # {}

\* C6: unlike(a,b) made when no Like(a->b) exists answers 404 and changes no
\* table.
C6_UnlikeNotFound ==
    [][(/\ Free(1) /\ req'[1].op = "unlike"
        /\ LikeRows(likes, req'[1].actor, req'[1].target) = {})
       => /\ req'[1].pc = "done" /\ req'[1].status = 404
          /\ UNCHANGED Tables]_vars

\* unlike(a,b) was refused although Like(b->a), the Match and a message exist
C6_Witness ==
    /\ Done(Call, "unlike") /\ Call.status = 404
    /\ LikeRows(likes, Call.target, Call.actor) # {}
    /\ \E m \in MatchRows(matches, Call.actor, Call.target) :
          \E g \in messages : g.match_id = m.id

\* C7: a successful unlike(a,b) removes Like(a->b) and no other Like; it
\* removes the Match of the pair exactly when that Match exists and Like(b->a)
\* does not, and no other Match.
C7_UnlikeFrame ==
    [][(Call.pc = "commit" /\ Call.op = "unlike" /\ req'[1].status = 200)
       => /\ likes' = likes \ LikeRows(likes, Call.actor, Call.target)
          /\ matches' =
                IF LikeRows(likes, Call.target, Call.actor) = {}
                THEN matches \ MatchRows(matches, Call.actor, Call.target)
                ELSE matches]_vars

\* unlike(a,b) succeeded and took the Match of the pair with it, Like(b->a)
\* being absent, while a Like of another pair stays stored
C7_Witness ==
    /\ Done(Call, "unlike") /\ Call.status = 200
    /\ Call.delMatches # {}
    /\ MatchRows(matches, Call.actor, Call.target) = {}
    /\ \E l \in likes : {l.user_id, l.liked_user_id} # {Call.actor, Call.target}

\* C8: under any interleaving of like and unlike requests the likes table holds
\* at most one row per ordered pair and the matches table at most one row per
\* unordered pair.
C8_OneRowPerPair ==
    \A a \in Users, b \in Users :
        /\ Cardinality(LikeRows(likes, a, b)) <= 1
        /\ Cardinality(MatchRows(matches, a, b)) <= 1

\* two like(a,b) requests both passed the existence check; one stored the Like
\* and the constraint rejected the other
C8_Witness ==
    \E r \in Reqs, o \in Reqs :
        /\ Done(req[r], "like") /\ Done(req[o], "like")
        /\ req[r].actor = req[o].actor /\ req[r].target = req[o].target
        /\ req[r].status = 200 /\ req[r].newLikes # {} /\ req[r].newLikes \subseteq likes
        /\ req[o].exc = "IntegrityError"

\* C9: a like(a,b) whose INSERT the unique_like constraint rejects answers as
\* the existing-edge case: 200 with the stored Like and match_created=false.
C9_DuplicateIsExisting ==
    [][\A r \in Reqs :
          (/\ req[r].pc = "like_flush" /\ lock = 0
           /\ LikeRows(likes, req[r].actor, req[r].target) # {}
           /\ req'[r].pc = "done")
          => /\ req'[r].status = 200
             /\ req'[r].like \in LikeRows(likes, req[r].actor, req[r].target)
             /\ ~req'[r].match_created]_vars

\* C10: the Like and the Match of one like request are invisible until its
\* commit; a commit that succeeds stores both and a commit that fails stores
\* neither, so a call that was to create the Match never leaves its Like stored
\* without it.
C10_LikeAtomic ==
    [][\A r \in Reqs :
          (req[r].pc = "commit" /\ req[r].op = "like")
          => /\ req[r].newLikes \cap likes = {}
             /\ req[r].newMatches \cap matches = {}
             /\ req'[r].pc = "done" =>
                   \/ /\ req'[r].status = 200
                      /\ req[r].newLikes \subseteq likes'
                      /\ req[r].newMatches \subseteq matches'
                      /\ req[r].match_created =>
                            MatchRows(matches', req[r].actor, req[r].target) # {}
                   \/ /\ req'[r].status = 500
                      /\ UNCHANGED <<likes, matches>>]_vars

\* a like request has committed its Like together with the Match it created
C10_Witness ==
    \E r \in Reqs :
        /\ Done(req[r], "like") /\ req[r].status = 200 /\ req[r].match_created
        /\ req[r].newLikes # {} /\ req[r].newLikes \subseteq likes
        /\ req[r].newMatches # {} /\ req[r].newMatches \subseteq matches

\* C11: every stored Match row has user1_id < user2_id, so no pair of users is
\* stored both as (a,b) and as (b,a).
C11_MatchCanonical ==
    /\ \A m \in matches : m.user1_id < m.user2_id
    /\ \A m \in matches, n \in matches :
          ~(m.user1_id = n.user2_id /\ m.user2_id = n.user1_id)

\* the Match of a pair is stored, made by a like of the higher id for the lower
C11_Witness ==
    /\ Done(Call, "like") /\ Call.match_created /\ Call.actor > Call.target
    /\ \E m \in matches : m \in Call.newMatches /\ m.user2_id = Call.actor

\* the answer of the last discovery request and the limit of its route
Discovered == Done(Call, "discover") \/ Done(Call, "potential")

RouteLimit == IF Call.op = "discover" THEN DiscoverLimit ELSE ApiLimit

\* C12: every user a discovery request returns is not the viewer, is active,
\* has a Profile with a non-empty name and is not liked by the viewer.
C12_DiscoverFilters ==
    Discovered =>
       \A u \in Call.potential_matches :
          /\ u \in DOMAIN users
          /\ u # Call.actor
          /\ users[u].active
          /\ users[u].profile # NoRow
          /\ users[u].profile.name # ""
          /\ \A l \in likes : ~(l.user_id = Call.actor /\ l.liked_user_id = u)

\* a discovery of a viewer who likes somebody returned users and left out an
\* account that is not registered
C12_Witness ==
    /\ Discovered
    /\ Call.potential_matches # {}
    /\ \E l \in likes : l.user_id = Call.actor
    /\ \E u \in Users \ {Call.actor} :
          /\ users[u] # Registered(users[u].profile.id)
          /\ LikeRows(likes, Call.actor, u) = {}
          /\ u \notin Call.potential_matches

\* the active, named users other than the viewer whom the viewer does not like
Eligible(viewer) ==
    {u \in DOMAIN users \ {viewer} :
        /\ users[u].active
        /\ users[u].profile # NoRow
        /\ users[u].profile.name # ""
        /\ LikeRows(likes, viewer, u) = {}}

\* C13: a discovery request returns min(limit, |E|) users of E, the active,
\* named users other than the viewer with no Like(viewer->u); neither a
\* Like(u->viewer) nor a Match of the two takes u out of E.
C13_OnlyOwnLikesSuppress ==
    Discovered =>
       /\ Call.potential_matches \subseteq Eligible(Call.actor)
       /\ Cardinality(Call.potential_matches) =
             Min2(RouteLimit, Cardinality(Eligible(Call.actor)))

\* a discovery cut short by its limit returned a user who likes the viewer and
\* is matched with the viewer
C13_Witness ==
    /\ Discovered
    /\ Cardinality(Call.potential_matches) < Cardinality(Eligible(Call.actor))
    /\ \E u \in Call.potential_matches :
          /\ LikeRows(likes, u, Call.actor) # {}
          /\ MatchRows(matches, u, Call.actor) # {}

\* the messages of a match and the messages of it that a user has not read
Thread(G, match_id) == {m \in G : m.match_id = match_id}

Unread(G, match_id, actor) ==
    {m \in Thread(G, match_id) : m.sender_id # actor /\ ~m.is_read}

\* the step starts a request op on a stored match
Starts(op) ==
    /\ Free(1) /\ req'[1].op = op
    /\ \E m \in matches : m.id = req'[1].target

\* the actor of the request is one of the two users of its match
Member(q) ==
    \E m \in matches : m.id = q.target /\ q.actor \in {m.user1_id, m.user2_id}

\* the step ends a request op with success, at once or with its commit
Completes(op) ==
    /\ req'[1].op = op /\ req'[1].pc = "done" /\ req'[1].status = 200
    /\ Free(1) \/ Call.pc = "commit"

\* C14: send_message by a user who is not a participant of the match answers
\* 403 whatever the content and leaves the messages of every match as they
\* were.
C14_SendDenied ==
    [][(Starts("send") /\ ~Member(req'[1]))
       => /\ req'[1].pc = "done" /\ req'[1].status = 403
          /\ req'[1].newMsgs = {}
          /\ messages' = messages]_vars

\* a user outside a match that holds messages was refused a send
C14_Witness ==
    /\ Done(Call, "send") /\ Call.status = 403
    /\ Thread(messages, Call.target) # {}

\* C15: the chat view, get_messages, mark_messages_read and get_chat_info
\* requested by a user who is not a participant of the match are denied,
\* return no message and no count of the match and change no message.
C15_GateEverywhere ==
    [][\A op \in {"chat", "messages", "mark_read", "info"} :
          (Starts(op) /\ ~Member(req'[1]))
          => /\ req'[1].pc = "done"
             /\ req'[1].status = IF op = "chat" THEN 302 ELSE 403
             /\ req'[1].messages = <<>>
             /\ req'[1].marked_count = 0 /\ req'[1].unread_count = 0
             /\ req'[1].readMsgs = {}
             /\ messages' = messages]_vars

\* a user outside a match with an unread message was denied its messages
C15_Witness ==
    /\ Call.pc = "done" /\ Call.op \in {"chat", "messages", "mark_read", "info"}
    /\ Call.status \in {302, 403}
    /\ \E m \in Thread(messages, Call.target) : ~m.is_read

\* C16: send_message by a participant answers a validation error and stores
\* nothing when the trimmed content is empty or longer than 1000 characters;
\* otherwise it stores exactly one Message of that match with is_read=false and
\* the actor as sender and leaves the stored messages as they were.
C16_SendValidation ==
    [][/\ \A a \in Users, m \in ChatIds, c \in Contents :
             (ChatSend(a, m, c) /\ Member(req'[1]))
             => IF Strip(c) = 0 \/ Strip(c) > MaxContent
                THEN /\ req'[1].pc = "done" /\ req'[1].status = 400
                     /\ messages' = messages
                ELSE req'[1].pc = "send_flush"
       /\ (Call.pc = "commit" /\ Completes("send"))
             => /\ messages \subseteq messages'
                /\ Cardinality(messages' \ messages) = 1
                /\ \A n \in messages' \ messages :
                      /\ n.match_id = Call.target /\ n.sender_id = Call.actor
                      /\ ~n.is_read]_vars

\* C17: a mark_messages_read that succeeds sets is_read on exactly the unread
\* messages of the match that the other user sent, answers their number and
\* leaves every other message as it was.
C17_MarkReadFrame ==
    [][Completes("mark_read")
       => LET marked == Unread(messages, req'[1].target, req'[1].actor)
          IN  /\ messages' = (messages \ marked) \cup
                                {[m EXCEPT !.is_read = TRUE] : m \in marked}
              /\ req'[1].marked_count = Cardinality(marked)]_vars

\* a mark_messages_read flipped a message of the other user while an unread
\* message of the actor and a message of the other match stayed as they were
C17_Witness ==
    /\ Done(Call, "mark_read") /\ Call.status = 200 /\ Call.marked_count > 0
    /\ \E m \in Thread(messages, Call.target) : m.sender_id = Call.actor /\ ~m.is_read
    /\ \E m \in messages : m.match_id # Call.target /\ ~m.is_read

\* C18: mark_messages_read by a participant of a match with no unread message
\* of the other user succeeds at once, answers 0 and changes nothing.
C18_MarkReadIdempotent ==
    [][(/\ Starts("mark_read") /\ Member(req'[1])
        /\ Unread(messages, req'[1].target, req'[1].actor) = {})
       => /\ req'[1].pc = "done" /\ req'[1].status = 200
          /\ req'[1].marked_count = 0
          /\ UNCHANGED Tables]_vars

\* a mark_messages_read answered 0 on a match whose message of the other user
\* had been read before
C18_Witness ==
    /\ Done(Call, "mark_read") /\ Call.status = 200 /\ Call.marked_count = 0
    /\ \E m \in Thread(messages, Call.target) : m.sender_id # Call.actor /\ m.is_read

\* the rows q are the n oldest messages of the match, oldest first
Oldest(q, G, match_id, n) ==
    /\ Len(q) = Min2(n, Cardinality(Thread(G, match_id)))
    /\ \A i \in 1..Len(q) : q[i] \in Thread(G, match_id)
    /\ \A i \in 1..Len(q), j \in 1..Len(q) :
          i < j => q[i].created_at < q[j].created_at
    /\ \A m \in Thread(G, match_id) :
          (\A i \in 1..Len(q) : q[i] # m)
             => \A i \in 1..Len(q) : q[i].created_at < m.created_at

\* C19: Match.get_messages(limit) answers the first min(limit, n) of the n
\* messages of the match in ascending creation order, for the limit 50 of the
\* get_messages route and the limit 1 of view_matches, and the request changes
\* no message.
C19_ListOldestFirst ==
    [][/\ Completes("messages")
             => /\ Oldest(req'[1].messages, messages, req'[1].target, DefaultLimit)
                /\ messages' = messages
       /\ Completes("matches")
             => /\ \A d \in req'[1].match_details :
                      Oldest(IF d.latest_message = NoRow THEN <<>>
                             ELSE <<d.latest_message>>, messages, d.match, 1)
                /\ messages' = messages]_vars

\* a participant listed the three messages of a match, and a match of two or
\* more messages was previewed
C19_Witness ==
    \/ Done(Call, "messages") /\ Len(Call.messages) = MaxThread
    \/ /\ Done(Call, "matches")
       /\ \E d \in Call.match_details :
             Cardinality(Thread(messages, d.match)) > 1

\* C20: when the chat view of a participant completes, the match holds no
\* unread message of the other user and the messages of the viewer are as they
\* were.
C20_ViewMarksRead ==
    [][Completes("chat")
       => /\ Unread(messages', req'[1].target, req'[1].actor) = {}
          /\ \A m \in messages : m.sender_id = req'[1].actor => m \in messages'
          /\ \A m \in messages' : m.sender_id = req'[1].actor => m \in messages]_vars

\* a chat view marked a message of the other user and left an unread message of
\* the viewer unread
C20_Witness ==
    /\ Done(Call, "chat") /\ Call.status = 200 /\ Call.readMsgs # {}
    /\ \E m \in Thread(messages, Call.target) : m.sender_id = Call.actor /\ ~m.is_read
    /\ \E m \in Thread(messages, Call.target) : m.sender_id # Call.actor /\ m.is_read

\* C21: every stored Message is of a stored Match and its sender is one of the
\* two users of that Match; a Match that is deleted takes its Messages with it.
C21_MessagesOfMatch ==
    \A g \in messages :
       \E m \in matches :
          m.id = g.match_id /\ g.sender_id \in {m.user1_id, m.user2_id}

\* C22: in every step a stored message whose Match stays stored stays stored
\* with the same match, sender, content and creation time, and a message that
\* was read stays read.
C22_AppendOnly ==
    [][\A g \in messages :
          (\E m \in matches \cap matches' : m.id = g.match_id)
          => \E h \in messages' :
                /\ h.id = g.id /\ h.match_id = g.match_id
                /\ h.sender_id = g.sender_id /\ h.content = g.content
                /\ h.created_at = g.created_at
                /\ g.is_read => h.is_read]_vars

\* a request has marked a message of a stored Match read
C22_Witness ==
    /\ \E g \in messages :
          g.is_read /\ \E m \in matches : m.id = g.match_id
    /\ \E r \in Reqs : req[r].pc = "done" /\ req[r].readMsgs # {} /\ req[r].status = 200

\* C23: under one-at-a-time like and unlike requests, a like(a,b) that inserts
\* Like(a->b) and finds Like(b->a) finds no Match of the pair, inserts it and
\* answers match_created=true.
C23_ExistingMatchUnreachable ==
    (/\ Call.pc = "commit" /\ Call.op = "like"
     /\ LikeRows(likes, Call.target, Call.actor) # {})
    => /\ MatchRows(matches, Call.actor, Call.target) = {}
       /\ Call.match_created
       /\ Call.newMatches # {}

\* C24: when like(a,b) and like(b,a) run side by side and both commit, every
\* state in which no request is under way and both Likes of a pair are stored
\* has the Match of the pair stored.
C24_ConcurrentLikesMatch ==
    Quiet => \A a, b \in Users :
                 Both(likes, a, b) => MatchRows(matches, a, b) # {}

\* both requests were under way together: the second slot is taken only while
\* the first is busy; each stored its own Like and the Match is stored
C24_Witness ==
    /\ Done(req[1], "like") /\ Done(req[2], "like")
    /\ req[1].status = 200 /\ req[2].status = 200
    /\ req[1].actor = req[2].target /\ req[1].target = req[2].actor
    /\ req[1].newLikes # {} /\ req[1].newLikes \subseteq likes
    /\ req[2].newLikes # {} /\ req[2].newLikes \subseteq likes
    /\ MatchRows(matches, req[1].actor, req[1].target) # {}

\* C25: when unlike(a,b) and unlike(b,a) run side by side, every state in which
\* no request is under way stores a Match only if at least one Like of its
\* pair is stored.
C25_ConcurrentUnlikesRetract ==
    Quiet => \A m \in matches :
                 \/ LikeRows(likes, m.user1_id, m.user2_id) # {}
                 \/ LikeRows(likes, m.user2_id, m.user1_id) # {}

\* both requests were under way together, each deleted its own Like, and the
\* one that wrote second deleted the Match
C25_Witness ==
    /\ Done(req[1], "unlike") /\ Done(req[2], "unlike")
    /\ req[1].status = 200 /\ req[2].status = 200
    /\ req[1].actor = req[2].target /\ req[1].target = req[2].actor
    /\ req[1].delLikes # {} /\ req[2].delLikes # {}
    /\ req[1].delMatches \cup req[2].delMatches # {}
    /\ likes = {} /\ matches = {}

\* C26: the chat view marks as read only messages that it shows: every message
\* that a completed chat view turned from unread to read is one of the rows the
\* view rendered, also when the match holds more messages than the view shows.
C26_ViewMarksShown ==
    [][Completes("chat")
       => \A m \in messages :
             (~m.is_read /\ \E n \in messages' : n.id = m.id /\ n.is_read)
                => \E i \in 1..Len(req'[1].messages) :
                      req'[1].messages[i].id = m.id]_vars

\* C27: each entry of view_matches carries as latest_message the most recently
\* created message of its match, or none when the match has no message, and as
\* unread_count the number of unread messages of the match that the viewer did
\* not send.
C27_PreviewLatest ==
    [][Completes("matches")
       => \A d \in req'[1].match_details :
             /\ Thread(messages, d.match) = {} => d.latest_message = NoRow
             /\ Thread(messages, d.match) # {}
                   => /\ d.latest_message \in Thread(messages, d.match)
                      /\ \A m \in Thread(messages, d.match) :
                            m.created_at <= d.latest_message.created_at
             /\ d.unread_count =
                   Cardinality(Unread(messages, d.match, req'[1].actor))]_vars

====
